---- MODULE Spec2Model ----
(***************************************************************************)
(* Crit-bit trie of valyala/simple-critbit: the allocator-based trie of    *)
(* critbit.h (second revision, with critbit_foreach), the self-contained   *)
(* critbit.h with critbit_sort, and the arena-backed critbit_sort of       *)
(* perftests.c.                                                            *)
(*                                                                         *)
(* A reference is a word: 0 (empty root), an even word (a leaf key) or an  *)
(* odd word (address of a node plus the tag 1).  Node storage is a map     *)
(* from even addresses to nodes.  Two properties of the build are state:   *)
(* the width of int (the return type of _critbit_is_set) and whether       *)
(* assert() is compiled in.                                                *)
(***************************************************************************)
EXTENDS Integers, Sequences, FiniteSets, TLC

\* Width of uintptr_t in the model (the program's _CRITBIT_PTR_BITS is 32 or 64).
PtrBits == 4

\* Largest number of keys the client keeps in the trie at once.
MaxKeys == 4

\* Largest number of alloc_node calls the client makes in one run.
MaxAllocCalls == 3

\* Largest buffer length handed to critbit_sort.
MaxLen == 3

\* Widths of int a build can have: as wide as uintptr_t (ILP32) or half (LP64).
IntWidths == {PtrBits, PtrBits \div 2}

\* Nonzero even words: the keys the interface accepts.
Keys == {k \in 1..(2^PtrBits - 1) : k % 2 = 0}

\* Addresses alloc_node may return (word aligned, hence even and nonzero).
NodeAddrs == {2 * j : j \in 1..((IF MaxKeys > MaxLen THEN MaxKeys ELSE MaxLen) - 1)}

\* Position returned when the scan of _critbit_get_crit_bit runs off the word.
NoBit == 0 - 1

\* Content of node storage that is not allocated.
FreeNode == [next |-> [i \in 0..1 |-> 0], crit_bit |-> 0]

\* &cb->root, as a slot pointer; other slot pointers are [node, idx].
RootPtr == [node |-> 0, idx |-> 0]

VARIABLES
  intBits,     \* width of int in this build
  ndebug,      \* TRUE iff assert() is compiled out
  root,        \* cb->root
  mem,         \* node storage: address -> node
  live,        \* addresses returned by alloc_node and not yet freed
  allocCalls,  \* number of alloc_node calls so far
  freeCalls,   \* number of free_node calls so far
  keys,        \* keys added and not removed since (by call, not by result)
  op,          \* the last completed or aborted call: [name, arg, ret]
  visited,     \* callback arguments of the last call, if it was a foreach
  events,      \* node reads, frees and slot writes of the last call (remove/delete)
  tagZero,     \* TRUE once _critbit_has_tag was called with 0
  fault,       \* "none", or the assertion/undefined behaviour that stopped it
  phase,       \* "live" until critbit_delete, then "deleted"
  impl,        \* which critbit_sort runs: "critbit.h" or "perftests.c"
  a,           \* the buffer of critbit_sort (a[i+1] is the C a[i])
  orig,        \* the buffer as passed to critbit_sort
  i,           \* loop index of critbit_sort
  m,           \* m of critbit_sort
  offset,      \* offset / data.offset of critbit_sort
  written,     \* C indices of the buffer critbit_sort has written
  nextIndex,   \* s->next_index of the arena
  spc,         \* position inside critbit_sort
  sret         \* return value of critbit_sort

trieVars == <<root, mem, live, allocCalls, freeCalls>>
buildVars == <<intBits, ndebug>>
clientVars == <<keys, op, visited, events, phase>>
sortVars == <<impl, a, orig, i, m, offset, written, nextIndex, spc, sret>>
vars == <<intBits, ndebug, root, mem, live, allocCalls, freeCalls, keys, op,
          visited, events, tagZero, fault, phase, impl, a, orig, i, m, offset,
          written, nextIndex, spc, sret>>

----------------------------------------------------------------------------
\* Word-level helpers.

\* Bit s (counted from the LSB) of word v.
BitAt(v, s) == (v \div (2^s)) % 2

\* v1 ^ v2 on PtrBits-wide words.
RECURSIVE XorFrom(_, _, _)
XorFrom(v1, v2, s) ==
  IF s >= PtrBits THEN 0
  ELSE (IF BitAt(v1, s) # BitAt(v2, s) THEN 2^s ELSE 0) + XorFrom(v1, v2, s + 1)

Xor(v1, v2) == XorFrom(v1, v2, 0)

\* Conversion of a uintptr_t value to the int the function returns: the low
\* intBits bits are kept (only whether the result is zero is ever used).
ToInt(w) == w % (2^intBits)

_critbit_has_tag(v) == v % 2 = 1

\* v & (1 << (PTR_BITS - 1 - bit)), returned as int, used as a truth value.
_critbit_is_set(v, bit) ==
  LET s == PtrBits - 1 - bit
  IN  ToInt(BitAt(v, s) * (2^s)) # 0

\* The for(;;) loop of _critbit_get_crit_bit from position bit on; NoBit when
\* the loop reaches a position where assert(bit < PTR_BITS - 1) fails.
RECURSIVE CritBitScan(_, _)
CritBitScan(x, bit) ==
  IF bit >= PtrBits - 1 THEN NoBit
  ELSE IF _critbit_is_set(x, bit) THEN bit
  ELSE CritBitScan(x, bit + 1)

\* _critbit_get_crit_bit as it would be if it scanned from the least
\* significant bit.
CritBitFromLsb(v1, v2) ==
  CHOOSE bit \in 0..(PtrBits - 1) :
    /\ BitAt(Xor(v1, v2), PtrBits - 1 - bit) = 1
    /\ \A below \in (bit + 1)..(PtrBits - 1) : BitAt(Xor(v1, v2), PtrBits - 1 - below) = 0

_critbit_get_crit_bit(v1, v2) == CritBitScan(Xor(v1, v2), 0)

_critbit_get_index(v, bit) == IF _critbit_is_set(v, bit) THEN 1 ELSE 0

_critbit_add_tag(node) == node + 1

_critbit_remove_tag(v) == v - 1

----------------------------------------------------------------------------
\* Slots and descents.

\* *ptr
Deref(rt, mm, ptr) == IF ptr.node = 0 THEN rt ELSE mm[ptr.node].next[ptr.idx]

\* The loop of _critbit_get_leaf_ptr, from slot ptr on.
RECURSIVE LeafPtrFrom(_, _, _, _)
LeafPtrFrom(rt, mm, ptr, v) ==
  LET w == Deref(rt, mm, ptr)
  IN  IF _critbit_has_tag(w)
      THEN LET node == _critbit_remove_tag(w)
               index == _critbit_get_index(v, mm[node].crit_bit)
           IN  LeafPtrFrom(rt, mm, [node |-> node, idx |-> index], v)
      ELSE ptr

\* _critbit_get_leaf_ptr as it would be if it took next[0] at every node.
LeafPtrLeftmost(rt, mm, v) == LeafPtrFrom(rt, mm, RootPtr, 0)

_critbit_get_leaf_ptr(rt, mm, v) == LeafPtrFrom(rt, mm, RootPtr, v)

\* The loop of _critbit_get_node_ptr, from slot ptr on.
RECURSIVE NodePtrFrom(_, _, _, _, _)
NodePtrFrom(rt, mm, ptr, v, crit_bit) ==
  LET w == Deref(rt, mm, ptr)
  IN  IF _critbit_has_tag(w)
      THEN LET node == _critbit_remove_tag(w)
           IN  IF mm[node].crit_bit > crit_bit THEN ptr
               ELSE LET index == _critbit_get_index(v, mm[node].crit_bit)
                    IN  NodePtrFrom(rt, mm, [node |-> node, idx |-> index], v, crit_bit)
      ELSE ptr

\* _critbit_get_node_ptr as it would be if it never stopped at a node.
NodePtrIgnoresCritBit(rt, mm, v, crit_bit) == LeafPtrFrom(rt, mm, RootPtr, v)

\* _critbit_get_node_ptr as it would be if it stopped at the root slot.
NodePtrAtRoot(rt, mm, v, crit_bit) == RootPtr

_critbit_get_node_ptr(rt, mm, v, crit_bit) == NodePtrFrom(rt, mm, RootPtr, v, crit_bit)

\* The words a descent for v passes to _critbit_has_tag, from slot ptr on.
RECURSIVE PathWords(_, _, _, _)
PathWords(rt, mm, ptr, v) ==
  LET w == Deref(rt, mm, ptr)
  IN  IF _critbit_has_tag(w)
      THEN LET node == _critbit_remove_tag(w)
               index == _critbit_get_index(v, mm[node].crit_bit)
           IN  {w} \cup PathWords(rt, mm, [node |-> node, idx |-> index], v)
      ELSE {w}

\* The node addresses a descent for v dereferences, in order.
RECURSIVE PathNodes(_, _, _, _)
PathNodes(rt, mm, ptr, v) ==
  LET w == Deref(rt, mm, ptr)
  IN  IF _critbit_has_tag(w)
      THEN LET node == _critbit_remove_tag(w)
               index == _critbit_get_index(v, mm[node].crit_bit)
           IN  <<node>> \o PathNodes(rt, mm, [node |-> node, idx |-> index], v)
      ELSE <<>>

\* Every word of the structure under reference w, w included.
RECURSIVE TreeWords(_, _)
TreeWords(mm, w) ==
  IF _critbit_has_tag(w)
  THEN LET node == _critbit_remove_tag(w)
       IN  {w} \cup TreeWords(mm, mm[node].next[0]) \cup TreeWords(mm, mm[node].next[1])
  ELSE {w}

\* The leaves under reference w, left to right.
RECURSIVE Leaves(_, _)
Leaves(mm, w) ==
  IF w = 0 THEN <<>>
  ELSE IF _critbit_has_tag(w)
  THEN LET node == _critbit_remove_tag(w)
       IN  Leaves(mm, mm[node].next[0]) \o Leaves(mm, mm[node].next[1])
  ELSE <<w>>

\* The node addresses reachable from reference w.
ReachNodes(mm, w) == {_critbit_remove_tag(x) : x \in {y \in TreeWords(mm, w) : y % 2 = 1}}

Range(s) == {s[j] : j \in 1..Len(s)}

----------------------------------------------------------------------------
\* The operations of the trie, as functions of the root and the node storage.

\* *ptr = w
Store(rt, mm, ptr, w) ==
  IF ptr.node = 0 THEN [root |-> w, mem |-> mm]
  ELSE [root |-> rt,
        mem |-> [mm EXCEPT ![ptr.node].next = [@ EXCEPT ![ptr.idx] = w]]]

\* TRUE iff the loop of _critbit_get_node_ptr meets a node whose crit_bit is
\* crit_bit, the case assert(node->crit_bit != crit_bit) rejects.
RECURSIVE NodePtrMeets(_, _, _, _, _)
NodePtrMeets(rt, mm, ptr, v, crit_bit) ==
  LET w == Deref(rt, mm, ptr)
  IN  IF _critbit_has_tag(w)
      THEN LET node == _critbit_remove_tag(w)
           IN  IF mm[node].crit_bit = crit_bit THEN TRUE
               ELSE IF mm[node].crit_bit > crit_bit THEN FALSE
               ELSE LET index == _critbit_get_index(v, mm[node].crit_bit)
                    IN  NodePtrMeets(rt, mm, [node |-> node, idx |-> index], v, crit_bit)
      ELSE FALSE

\* _critbit_create_node as it would be with the two children exchanged.
CreateNodeSwapped(v1, v2, crit_bit) ==
  LET index == _critbit_get_index(v1, crit_bit)
  IN  [next |-> [j \in 0..1 |-> IF j = index THEN v2 ELSE v1], crit_bit |-> crit_bit]

\* The node _critbit_create_node fills in.
_critbit_create_node(v1, v2, crit_bit) ==
  LET index == _critbit_get_index(v1, crit_bit)
  IN  [next |-> [j \in 0..1 |-> IF j = index THEN v1 ELSE v2], crit_bit |-> crit_bit]

\* The assertion of _critbit_create_node on an untagged v2.
CreateNodeAssert(v1, v2, crit_bit) ==
  _critbit_has_tag(v2)
    \/ _critbit_get_index(v2, crit_bit) = 1 - _critbit_get_index(v1, crit_bit)

\* A call that does not return: nothing is written, no value is returned.
Stopped(rt, mm, why) ==
  [root |-> rt, mem |-> mm, ret |-> 0 - 1, node |-> 0, fault |-> why]

\* critbit_add(cb, v), with addr the address alloc_node returns if it is called.
\* node is the address allocated, 0 if none.
critbit_add(rt, mm, v, addr) ==
  IF rt = 0 THEN [root |-> v, mem |-> mm, ret |-> 1, node |-> 0, fault |-> "none"]
  ELSE
    LET leaf == Deref(rt, mm, _critbit_get_leaf_ptr(rt, mm, v))
    IN  IF leaf = v
        THEN [root |-> rt, mem |-> mm, ret |-> 0, node |-> 0, fault |-> "none"]
        ELSE
          LET crit_bit == _critbit_get_crit_bit(leaf, v)
          IN  IF crit_bit = NoBit
              THEN Stopped(rt, mm, IF ndebug THEN "undefined: shift count in _critbit_is_set"
                                   ELSE "assert: bit < _CRITBIT_PTR_BITS - 1")
              ELSE IF ~ndebug /\ NodePtrMeets(rt, mm, RootPtr, v, crit_bit)
              THEN Stopped(rt, mm, "assert: node->crit_bit != crit_bit")
              ELSE
                LET next == _critbit_get_node_ptr(rt, mm, v, crit_bit)
                    old  == Deref(rt, mm, next)
                IN  IF ~ndebug /\ ~CreateNodeAssert(v, old, crit_bit)
                    THEN Stopped(rt, mm, "assert: _critbit_get_index(v2, crit_bit) == (index ^ 1)")
                    ELSE
                      LET mm2 == [mm EXCEPT ![addr] = _critbit_create_node(v, old, crit_bit)]
                          st  == Store(rt, mm2, next, _critbit_add_tag(addr))
                      IN  [root |-> st.root, mem |-> st.mem, ret |-> 1,
                           node |-> addr, fault |-> "none"]

\* The words critbit_add passes to _critbit_has_tag.
AddTagArgs(rt, mm, v, addr) ==
  {v} \cup
  (IF rt = 0 THEN {}
   ELSE LET leaf == Deref(rt, mm, _critbit_get_leaf_ptr(rt, mm, v))
        IN  PathWords(rt, mm, RootPtr, v)
              \cup (IF leaf = v THEN {} ELSE {leaf, v, addr}))

\* The descent of critbit_remove: prev is the slot that holds the reference to
\* the node whose child slot is examined; returns the last prev and next.
RECURSIVE RemoveDescent(_, _, _, _)
RemoveDescent(rt, mm, prev, v) ==
  LET node  == _critbit_remove_tag(Deref(rt, mm, prev))
      index == _critbit_get_index(v, mm[node].crit_bit)
      next  == [node |-> node, idx |-> index]
  IN  IF _critbit_has_tag(Deref(rt, mm, next))
      THEN RemoveDescent(rt, mm, next, v)
      ELSE [prev |-> prev, next |-> next]

\* _critbit_delete_node as it would be if it returned the child that holds v.
DeleteNodeKeepsRemoved(mm, tagged_node, v) ==
  LET node  == _critbit_remove_tag(tagged_node)
      index == _critbit_get_index(v, mm[node].crit_bit)
  IN  [remaining |-> mm[node].next[index], freed |-> node]

\* _critbit_delete_node as it would be without its free_node call.
DeleteNodeWithoutFree(mm, tagged_node, v) ==
  LET node  == _critbit_remove_tag(tagged_node)
      index == _critbit_get_index(v, mm[node].crit_bit)
  IN  [remaining |-> mm[node].next[1 - index], freed |-> 0]

\* _critbit_delete_node: passes the node to free_node (freed) and returns its
\* other child (remaining).
_critbit_delete_node(mm, tagged_node, v) ==
  LET node  == _critbit_remove_tag(tagged_node)
      index == _critbit_get_index(v, mm[node].crit_bit)
  IN  [remaining |-> mm[node].next[1 - index], freed |-> node]

\* The leaf-root case of critbit_remove as it would be if it cleared the root
\* before comparing.
RemoveLeafRootClearsFirst(rt, mm, v) ==
  [root |-> 0, mem |-> mm, ret |-> (IF rt = v THEN 1 ELSE 0), node |-> 0,
   events |-> <<>>]

\* The leaf-root case of critbit_remove as it would be without cb->root = 0.
RemoveLeafRootKeepsRoot(rt, mm, v) ==
  [root |-> rt, mem |-> mm, ret |-> (IF rt = v THEN 1 ELSE 0), node |-> 0,
   events |-> <<>>]

\* critbit_remove when the root is a leaf: clear it on a match.
RemoveLeafRoot(rt, mm, v) ==
  IF rt = v
  THEN [root |-> 0, mem |-> mm, ret |-> 1, node |-> 0, events |-> <<>>]
  ELSE [root |-> rt, mem |-> mm, ret |-> 0, node |-> 0, events |-> <<>>]

Ev(kind, node) == [kind |-> kind, node |-> node]

\* critbit_remove(cb, v).  node is the address passed to free_node, 0 if none;
\* events lists the node reads, the free_node call and the slot write in order.
critbit_remove(rt, mm, v) ==
  IF rt = 0 THEN [root |-> rt, mem |-> mm, ret |-> 0, node |-> 0, events |-> <<>>]
  ELSE IF ~_critbit_has_tag(rt) THEN RemoveLeafRoot(rt, mm, v)
  ELSE
    LET d     == RemoveDescent(rt, mm, RootPtr, v)
        path  == PathNodes(rt, mm, RootPtr, v)
        reads == [j \in 1..Len(path) |-> Ev("read", path[j])]
    IN  IF Deref(rt, mm, d.next) # v
        THEN [root |-> rt, mem |-> mm, ret |-> 0, node |-> 0, events |-> reads]
        ELSE
          LET tagged == Deref(rt, mm, d.prev)
              node   == _critbit_remove_tag(tagged)
              del    == _critbit_delete_node(mm, tagged, v)
              mm2    == IF del.freed = 0 THEN mm ELSE [mm EXCEPT ![del.freed] = FreeNode]
              st     == Store(rt, mm2, d.prev, del.remaining)
          IN  [root |-> st.root, mem |-> st.mem, ret |-> 1, node |-> del.freed,
               events |-> reads \o <<Ev("read", node)>>
                            \o (IF del.freed = 0 THEN <<>> ELSE <<Ev("free", del.freed)>>)
                            \o <<Ev("write", d.prev.node)>>]

\* The words critbit_remove passes to _critbit_has_tag.
RemoveTagArgs(rt, mm, v) ==
  {v} \cup (IF rt = 0 THEN {} ELSE PathWords(rt, mm, RootPtr, v))

\* critbit_contains(cb, v)
critbit_contains(rt, mm, v) ==
  IF rt = 0 THEN 0
  ELSE IF Deref(rt, mm, _critbit_get_leaf_ptr(rt, mm, v)) = v THEN 1 ELSE 0

\* The words critbit_contains passes to _critbit_has_tag.
ContainsTagArgs(rt, mm, v) ==
  {v} \cup (IF rt = 0 THEN {} ELSE PathWords(rt, mm, RootPtr, v))

\* _critbit_visit(visitor, v): the arguments of the callback, in call order.
RECURSIVE _critbit_visit(_, _)
_critbit_visit(mm, v) ==
  IF _critbit_has_tag(v)
  THEN LET node  == _critbit_remove_tag(v)
           left  == mm[node].next[0]
           right == mm[node].next[1]
       IN  _critbit_visit(mm, left) \o _critbit_visit(mm, right)
  ELSE <<v>>

\* critbit_foreach(cb, visitor)
critbit_foreach(rt, mm) == _critbit_visit(mm, rt)

\* _critbit_remove_all_nodes as it would be without the call on next[1].
RECURSIVE RemoveAllNodesLeftOnly(_, _)
RemoveAllNodesLeftOnly(mm, v) ==
  IF _critbit_has_tag(v)
  THEN LET node == _critbit_remove_tag(v)
       IN  <<Ev("read", node)>> \o RemoveAllNodesLeftOnly(mm, mm[node].next[0])
             \o <<Ev("free", node)>>
  ELSE <<>>

\* _critbit_remove_all_nodes as it would be if it freed the node first.
RECURSIVE RemoveAllNodesPreOrder(_, _)
RemoveAllNodesPreOrder(mm, v) ==
  IF _critbit_has_tag(v)
  THEN LET node == _critbit_remove_tag(v)
       IN  <<Ev("read", node), Ev("read", node), Ev("free", node)>>
             \o RemoveAllNodesPreOrder(mm, mm[node].next[0])
             \o RemoveAllNodesPreOrder(mm, mm[node].next[1])
  ELSE <<>>

\* _critbit_remove_all_nodes(cb, v): node reads and free_node calls in order.
RECURSIVE _critbit_remove_all_nodes(_, _)
_critbit_remove_all_nodes(mm, v) ==
  IF _critbit_has_tag(v)
  THEN LET node == _critbit_remove_tag(v)
       IN  <<Ev("read", node)>> \o _critbit_remove_all_nodes(mm, mm[node].next[0])
             \o <<Ev("read", node)>> \o _critbit_remove_all_nodes(mm, mm[node].next[1])
             \o <<Ev("free", node)>>
  ELSE <<>>

\* critbit_delete(cb): the events of the teardown.
critbit_delete(rt, mm) ==
  IF rt # 0 THEN _critbit_remove_all_nodes(mm, rt) ELSE <<>>

\* The addresses a sequence of events frees.
Freed(evs) == {evs[j].node : j \in {x \in 1..Len(evs) : evs[x].kind = "free"}}

----------------------------------------------------------------------------
\* A client of the trie: critbit_create, then any calls, then critbit_delete.

NoSort ==
  /\ impl = "none" /\ a = <<>> /\ orig = <<>> /\ i = 0 /\ m = 0 /\ offset = 0
  /\ written = {} /\ nextIndex = 0 /\ spc = "idle" /\ sret = 0

\* The state critbit_create leaves, in any build.
Init ==
  /\ intBits \in IntWidths
  /\ ndebug \in BOOLEAN
  /\ root = 0
  /\ mem = [addr \in NodeAddrs |-> FreeNode]
  /\ live = {}
  /\ allocCalls = 0
  /\ freeCalls = 0
  /\ keys = {}
  /\ op = [name |-> "create", arg |-> 0, ret |-> 0]
  /\ visited = <<>>
  /\ events = <<>>
  /\ tagZero = FALSE
  /\ fault = "none"
  /\ phase = "live"
  /\ NoSort

Running == phase = "live" /\ fault = "none"

\* The client calls critbit_add(cb, v); alloc_node returns any free address.
Add(v) ==
  /\ Running
  /\ \/ v \in Range(Leaves(mem, root))
     \/ Len(Leaves(mem, root)) < MaxKeys /\ allocCalls < MaxAllocCalls
  /\ \E addr \in NodeAddrs \ live :
       LET r == critbit_add(root, mem, v, addr)
       IN  /\ root' = r.root
           /\ mem' = r.mem
           /\ live' = IF r.node = 0 THEN live ELSE live \cup {r.node}
           /\ allocCalls' = IF r.node = 0 THEN allocCalls ELSE allocCalls + 1
           /\ fault' = r.fault
           /\ op' = [name |-> "add", arg |-> v, ret |-> r.ret]
           /\ tagZero' = (tagZero \/ 0 \in AddTagArgs(root, mem, v, addr))
  /\ keys' = keys \cup {v}
  /\ visited' = <<>>
  /\ events' = <<>>
  /\ UNCHANGED <<freeCalls, phase, buildVars, sortVars>>

\* The client calls critbit_remove(cb, v).
Remove(v) ==
  /\ Running
  /\ LET r == critbit_remove(root, mem, v)
     IN  /\ root' = r.root
         /\ mem' = r.mem
         /\ live' = live \ {r.node}
         /\ freeCalls' = IF r.node = 0 THEN freeCalls ELSE freeCalls + 1
         /\ events' = r.events
         /\ op' = [name |-> "remove", arg |-> v, ret |-> r.ret]
  /\ tagZero' = (tagZero \/ 0 \in RemoveTagArgs(root, mem, v))
  /\ keys' = keys \ {v}
  /\ visited' = <<>>
  /\ UNCHANGED <<allocCalls, fault, phase, buildVars, sortVars>>

\* The client calls critbit_contains(cb, v).
Contains(v) ==
  /\ Running
  /\ op' = [name |-> "contains", arg |-> v, ret |-> critbit_contains(root, mem, v)]
  /\ tagZero' = (tagZero \/ 0 \in ContainsTagArgs(root, mem, v))
  /\ visited' = <<>>
  /\ events' = <<>>
  /\ UNCHANGED <<trieVars, keys, fault, phase, buildVars, sortVars>>

\* The client calls critbit_foreach(cb, visitor) with a visitor that records
\* its argument.  _critbit_has_tag(0) aborts where assert() is compiled in.
Foreach ==
  /\ Running
  /\ tagZero' = (tagZero \/ 0 \in TreeWords(mem, root))
  /\ IF 0 \in TreeWords(mem, root) /\ ~ndebug
     THEN /\ fault' = "assert: v != 0 in _critbit_has_tag"
          /\ visited' = <<>>
          /\ op' = [name |-> "foreach", arg |-> 0, ret |-> 0 - 1]
     ELSE /\ fault' = fault
          /\ visited' = critbit_foreach(root, mem)
          /\ op' = [name |-> "foreach", arg |-> 0, ret |-> 0]
  /\ events' = <<>>
  /\ UNCHANGED <<trieVars, keys, phase, buildVars, sortVars>>

\* The client calls critbit_delete(cb).
Delete ==
  /\ Running
  /\ LET evs == critbit_delete(root, mem)
     IN  /\ events' = evs
         /\ live' = live \ Freed(evs)
         /\ mem' = [addr \in NodeAddrs |-> IF addr \in Freed(evs) THEN FreeNode ELSE mem[addr]]
         /\ freeCalls' = freeCalls + Cardinality({j \in 1..Len(evs) : evs[j].kind = "free"})
         /\ tagZero' = (tagZero \/ (root # 0 /\ 0 \in TreeWords(mem, root)))
  /\ phase' = "deleted"
  /\ op' = [name |-> "delete", arg |-> 0, ret |-> 0]
  /\ visited' = <<>>
  /\ UNCHANGED <<root, allocCalls, keys, fault, buildVars, sortVars>>

Next ==
  \/ \E v \in Keys : Add(v)
  \/ \E v \in Keys : Remove(v)
  \/ \E v \in Keys : Contains(v)
  \/ Foreach
  \/ Delete

Spec == Init /\ [][Next]_vars

----------------------------------------------------------------------------
\* critbit_sort: the self-contained one of critbit.h (malloc, _critbit_put_node)
\* and the arena-backed one of perftests.c (critbit_foreach, sort_callback).

SortImpls == {"critbit.h", "perftests.c"}

\* sizeof(struct _critbit_node), in words: next[2] and the padded crit_bit.
NodeSize == 3

\* SIZE_MAX, size_t being as wide as uintptr_t.
SizeMax == 2^PtrBits - 1

\* The buffers critbit_sort is called with, n being their length.
Buffers == UNION {[1..len -> Keys] : len \in 0..MaxLen}

n == Len(orig)

InitSort ==
  /\ intBits \in IntWidths
  /\ ndebug \in BOOLEAN
  /\ root = 0
  /\ mem = [addr \in NodeAddrs |-> FreeNode]
  /\ live = {}
  /\ allocCalls = 0
  /\ freeCalls = 0
  /\ keys = {}
  /\ op = [name |-> "sort", arg |-> 0, ret |-> 0]
  /\ visited = <<>>
  /\ events = <<>>
  /\ tagZero = FALSE
  /\ fault = "none"
  /\ phase = "live"
  /\ impl \in SortImpls
  /\ orig \in Buffers
  /\ a = orig
  /\ i = 0 /\ m = 0 /\ offset = 0 /\ written = {} /\ nextIndex = 0
  /\ spc = "create" /\ sret = 0

\* n - 1 as create_node_storage computes it, in size_t.
ArenaSlots == (n - 1) % (SizeMax + 1)

\* The ways create_node_storage(n) can end, "none" being the return: its
\* assertion divides by n - 1, which is undefined for n = 1 (the build either
\* traps or takes the comparison as true), and fails when the quotient is
\* below node_size.
create_node_storage ==
  IF ndebug THEN {"none"}
  ELSE IF ArenaSlots = 0
  THEN {"none", "undefined: division by zero in create_node_storage"}
  ELSE IF NodeSize <= SizeMax \div ArenaSlots THEN {"none"}
  ELSE {"assert: node_size <= SIZE_MAX / (n - 1)"}

\* Start of critbit_sort: create_node_storage (perftests.c), critbit_create, m = n.
SortCreate ==
  /\ spc = "create" /\ fault = "none"
  /\ fault' \in (IF impl = "perftests.c" THEN create_node_storage ELSE {"none"})
  /\ root' = 0
  /\ m' = n
  /\ i' = 0
  /\ nextIndex' = 0
  /\ spc' = "add"
  /\ UNCHANGED <<mem, live, allocCalls, freeCalls, tagZero, buildVars, clientVars,
                 impl, a, orig, offset, written, sret>>

\* alloc_critbit_node as it would be if it incremented next_index first.
AllocAfterIncrement == 2 * (nextIndex + 2)

\* alloc_critbit_node of perftests.c: the address of arena slot next_index.
alloc_critbit_node == 2 * (nextIndex + 1)

\* One iteration of the loop: if (!critbit_add(cb, a[i])) --m;
SortAdd ==
  /\ spc = "add" /\ fault = "none" /\ i < n
  /\ \E addr \in (IF impl = "perftests.c" THEN {alloc_critbit_node} ELSE NodeAddrs \ live) :
       LET r == critbit_add(root, mem, a[i + 1], addr)
       IN  IF r.node # 0 /\ impl = "perftests.c" /\ nextIndex >= ArenaSlots
           THEN /\ fault' = "undefined: node beyond the arena"
                /\ UNCHANGED <<root, mem, live, allocCalls, nextIndex, m, i>>
                /\ tagZero' = tagZero
           ELSE /\ fault' = r.fault
                /\ root' = r.root
                /\ mem' = r.mem
                /\ live' = (IF r.node = 0 THEN live ELSE live \cup {r.node})
                /\ allocCalls' = (IF r.node = 0 THEN allocCalls ELSE allocCalls + 1)
                /\ nextIndex' = (IF r.node # 0 /\ impl = "perftests.c"
                                 THEN nextIndex + 1 ELSE nextIndex)
                /\ m' = (IF r.ret = 0 THEN m - 1 ELSE m)
                /\ i' = (IF r.fault = "none" THEN i + 1 ELSE i)
                /\ tagZero' = (tagZero \/ 0 \in AddTagArgs(root, mem, a[i + 1], addr))
  /\ UNCHANGED <<freeCalls, buildVars, clientVars, impl, a, orig, offset, written,
                 spc, sret>>

\* _critbit_put_node(a, offset, v) of critbit.h, and equally critbit_foreach
\* with sort_callback of perftests.c: a[offset++] = leaf for each leaf in
\* order.  A write at an index that is not in the buffer is recorded in
\* written only.
RECURSIVE _critbit_put_node(_, _, _, _, _)
_critbit_put_node(buf, off, wr, mm, v) ==
  IF _critbit_has_tag(v)
  THEN LET node == _critbit_remove_tag(v)
           l    == _critbit_put_node(buf, off, wr, mm, mm[node].next[0])
       IN  _critbit_put_node(l.a, l.offset, l.written, mm, mm[node].next[1])
  ELSE [a |-> (IF off < Len(buf) THEN [buf EXCEPT ![off + 1] = v] ELSE buf),
        offset |-> off + 1,
        written |-> wr \cup {off}]

\* The drain: _critbit_put_node / critbit_foreach, then the assertion on offset.
\* With the root 0, _critbit_has_tag(0) aborts where assert() is compiled in;
\* elsewhere a[0] = 0 is written, past the end of an empty buffer.
SortPut ==
  /\ spc = "add" /\ fault = "none" /\ i = n
  /\ tagZero' = (tagZero \/ 0 \in TreeWords(mem, root))
  /\ LET p == _critbit_put_node(a, 0, {}, mem, root)
     IN  IF ~ndebug /\ 0 \in TreeWords(mem, root)
         THEN /\ fault' = "assert: v != 0 in _critbit_has_tag"
              /\ UNCHANGED <<a, offset, written, spc>>
         ELSE /\ a' = p.a
              /\ offset' = p.offset
              /\ written' = p.written
              /\ \/ /\ fault' = (IF ~ndebug /\ p.offset # m
                                 THEN "assert: offset == m" ELSE "none")
                    /\ spc' = "delete"
                 \/ /\ \E j \in p.written : j >= n
                    /\ fault' = "undefined: write past the end of the buffer"
                    /\ spc' = spc
  /\ UNCHANGED <<trieVars, buildVars, clientVars, impl, orig, i, m, nextIndex, sret>>

\* critbit_delete(cb), delete_node_storage(s) in perftests.c, and the return:
\* m in critbit.h, data.offset in perftests.c.  free_critbit_node of
\* perftests.c does nothing; the arena is released as a whole.
SortDelete ==
  /\ spc = "delete" /\ fault = "none"
  /\ LET evs == critbit_delete(root, mem)
     IN  /\ events' = evs
         /\ live' = (IF impl = "perftests.c" THEN {} ELSE live \ Freed(evs))
         /\ mem' = [addr \in NodeAddrs |->
                      IF impl = "perftests.c" \/ addr \in Freed(evs)
                      THEN FreeNode ELSE mem[addr]]
         /\ freeCalls' = freeCalls + Cardinality(Freed(evs))
         /\ tagZero' = (tagZero \/ (root # 0 /\ 0 \in TreeWords(mem, root)))
  /\ sret' = (IF impl = "perftests.c" THEN offset ELSE m)
  /\ spc' = "done"
  /\ phase' = "deleted"
  /\ UNCHANGED <<root, allocCalls, fault, buildVars, keys, op, visited, impl, a,
                 orig, i, m, offset, written, nextIndex>>

NextSort ==
  \/ SortCreate
  \/ SortAdd
  \/ SortPut
  \/ SortDelete

SpecSort == InitSort /\ [][NextSort]_vars

----------------------------------------------------------------------------
\* Properties of the client specification Spec.

StrictlyAscending(s) == \A j \in 1..(Len(s) - 1) : s[j] < s[j + 1]

\* The keys stored at the leaves of the structure.
Stored == Range(Leaves(mem, root))

\* C1: Set refinement: after any sequence of critbit_add / critbit_remove calls
\* critbit_contains(cb, k) is 1 exactly when k was added and not removed since.
C1_SetRefinement ==
  phase = "live" =>
    \A k \in Keys : (critbit_contains(root, mem, k) = 1) <=> (k \in keys)

\* C1, on the calls that returned: the same statement where no call has stopped.
C1_SetRefinementWhereReturned == fault = "none" => C1_SetRefinement

\* C1, in the builds whose int is as wide as uintptr_t.
C1_SetRefinementWideInt == intBits = PtrBits => C1_SetRefinement

\* C2: critbit_add(cb, v) returns 1 iff v was not in the trie before the call,
\* 0 if it was, and critbit_contains(cb, v) is 1 afterwards.
C2_AddResult ==
  [][op'.name = "add" =>
       /\ op'.ret = (IF op'.arg \in Stored THEN 0 ELSE 1)
       /\ critbit_contains(root', mem', op'.arg) = 1]_vars

\* C2, in the builds whose int is as wide as uintptr_t.
C2_AddResultWideInt ==
  [][(op'.name = "add" /\ intBits = PtrBits) =>
       /\ op'.ret = (IF op'.arg \in Stored THEN 0 ELSE 1)
       /\ critbit_contains(root', mem', op'.arg) = 1]_vars

\* C3: Insert/remove inverse: critbit_remove(cb, k) returns 1 when k is stored
\* and 0 when it is not; afterwards k is not stored, critbit_contains(cb, k)
\* is 0 and a second critbit_remove(cb, k) returns 0; the other keys stay.
C3_RemoveInverse ==
  [][op'.name = "remove" =>
       /\ op'.ret = (IF op'.arg \in Stored THEN 1 ELSE 0)
       /\ critbit_contains(root', mem', op'.arg) = 0
       /\ critbit_remove(root', mem', op'.arg).ret = 0
       /\ Range(Leaves(mem', root')) = Stored \ {op'.arg}]_vars

\* C3 witness: a stored key was removed from under a node nested in another.
C3_Witness ==
  /\ op.name = "remove" /\ op.ret = 1
  /\ Len(events) >= 5
  /\ Len(Leaves(mem, root)) >= 2

\* C4: Ascending enumeration: critbit_foreach calls the visitor once for each
\* key present and for nothing else, in strictly increasing order.
C4_AscendingEnumeration ==
  op.name = "foreach" =>
    /\ fault = "none"
    /\ StrictlyAscending(visited)
    /\ Range(visited) = Stored
    /\ Len(visited) = Cardinality(Stored)

\* C4 without the order: on a non-empty trie the visitor sees exactly the keys.
C4_EnumerationSet ==
  (op.name = "foreach" /\ root # 0) =>
    /\ fault = "none"
    /\ Range(visited) = Stored
    /\ Len(visited) = Cardinality(Stored)

\* C4, in the builds whose int is as wide as uintptr_t, on a non-empty trie.
C4_AscendingWideInt ==
  (op.name = "foreach" /\ root # 0 /\ intBits = PtrBits) =>
    C4_AscendingEnumeration

\* C6: _critbit_has_tag is never called with argument 0.
C6_TagTestNeverOnZero == ~tagZero

\* C7: Unsuccessful operations do not mutate: when critbit_add or
\* critbit_remove returns 0, the root, every node and the allocator's call
\* counts are unchanged.
C7_FailedCallsDoNotMutate ==
  [][(op'.name \in {"add", "remove"} /\ op'.ret = 0) =>
       UNCHANGED <<root, mem, live, allocCalls, freeCalls>>]_vars

\* C7 witness: critbit_remove returned 0 on a single-leaf root holding another key.
C7_Witness ==
  /\ op.name = "remove" /\ op.ret = 0
  /\ root # 0 /\ ~_critbit_has_tag(root) /\ root # op.arg

\* C7 witness for add: critbit_add returned 0 on a trie with a node.
C7_WitnessAdd == op.name = "add" /\ op.ret = 0 /\ _critbit_has_tag(root)

Max0(x) == IF x < 0 THEN 0 ELSE x

\* C8: Allocation accounting: alloc_node is called once by each add that
\* returns 1 on a non-empty trie and by no other call, free_node once by each
\* remove that returns 1 on a trie of two or more keys and by no other
\* add/remove/contains/foreach; the live nodes are the nodes reachable from
\* the root and number max(0, keys - 1).
C8_AllocationAccounting ==
  /\ [](phase = "live" =>
          /\ Cardinality(live) = allocCalls - freeCalls
          /\ live = ReachNodes(mem, root)
          /\ Cardinality(live) = Max0(Cardinality(Stored) - 1))
  /\ [][op'.name \in {"add", "remove", "contains", "foreach"} =>
          /\ allocCalls' - allocCalls =
               (IF op'.name = "add" /\ op'.ret = 1 /\ root # 0 THEN 1 ELSE 0)
          /\ freeCalls' - freeCalls =
               (IF op'.name = "remove" /\ op'.ret = 1 /\ Cardinality(Stored) >= 2
                THEN 1 ELSE 0)]_vars

\* C8 witness: a node was allocated again after one was freed.
C8_Witness ==
  /\ phase = "live" /\ freeCalls >= 1 /\ allocCalls >= 3
  /\ Cardinality(live) = 2

\* TRUE iff no event of evs touches a node after the event that frees it, each
\* freed node was live in lv, and nothing is freed twice.
OwnedOnce(evs, lv) ==
  \A j \in 1..Len(evs) :
    /\ evs[j].node # 0 => evs[j].node \in lv
    /\ evs[j].kind = "free" =>
         \A k \in (j + 1)..Len(evs) : evs[k].node # evs[j].node

\* C9: Exactly-once ownership: over adds and removes followed by
\* critbit_delete every allocated node is freed exactly once, free_node only
\* gets live nodes, no freed node is read, and none stays reachable.
C9_ExactlyOnceOwnership ==
  /\ [](phase = "deleted" => (live = {} /\ allocCalls = freeCalls))
  /\ [](phase = "live" => ReachNodes(mem, root) \subseteq live)
  /\ [][/\ OwnedOnce(events', live)
        /\ op'.name \in {"remove", "delete"} =>
             /\ live' = live \ Freed(events')
             /\ freeCalls' - freeCalls = Cardinality(Freed(events'))]_vars

\* C9 witness: critbit_delete freed two nodes after an earlier remove freed one.
C9_Witness ==
  /\ phase = "deleted" /\ allocCalls = 3 /\ freeCalls = 3
  /\ Cardinality(Freed(events)) = 2

----------------------------------------------------------------------------
\* Properties of critbit_sort, specification SpecSort.

Distinct(s) == Range(s)

\* a[0..k) of the buffer.
Prefix(buf, k) == [j \in 1..(IF k < Len(buf) THEN k ELSE Len(buf)) |-> buf[j]]

\* C5: Sort correctness: critbit_sort(a, n) returns m <= n, a[0..m) is
\* strictly ascending and holds exactly the distinct values of the input
\* (stated for the calls of critbit.h's critbit_sort that return).
C5_SortCorrect ==
  (spc = "done" /\ impl = "critbit.h") =>
    /\ sret <= n
    /\ sret = Cardinality(Distinct(orig))
    /\ StrictlyAscending(Prefix(a, sret))
    /\ Range(Prefix(a, sret)) = Distinct(orig)

\* C5 for every call, returned or not, of either critbit_sort.
C5_SortCorrectEveryCall ==
  /\ fault = "none"
  /\ spc = "done" =>
       /\ sret <= n
       /\ sret = Cardinality(Distinct(orig))
       /\ StrictlyAscending(Prefix(a, sret))
       /\ Range(Prefix(a, sret)) = Distinct(orig)

\* C5, for n >= 2 in the builds whose int is as wide as uintptr_t.
C5_SortCorrectWideInt == (intBits = PtrBits /\ n >= 2) => C5_SortCorrectEveryCall

\* C5 without the order, for n >= 2 and the calls that return.
C5_SortDedup ==
  (spc = "done" /\ n >= 2) =>
    /\ sret = Cardinality(Distinct(orig))
    /\ Range(Prefix(a, sret)) = Distinct(orig)

\* C10: critbit_sort writes only buffer positions below the returned count;
\* for n = 0 it returns 0 and writes nothing.
C10_SortWritesBelowCount ==
  /\ \A j \in written : j < (IF spc = "done" THEN sret ELSE m)
  /\ n = 0 => (written = {} /\ (spc = "done" => sret = 0))

\* C10 for n >= 1: the writes are exactly the positions below the count.
C10_WritesBelowCountNonEmpty ==
  (n >= 1 /\ spc \in {"delete", "done"}) => written = 0..(m - 1)

----------------------------------------------------------------------------
\* Structural invariants of the trie, specification Spec.

NoDuplicates(s) == \A j, k \in 1..Len(s) : j # k => s[j] # s[k]

\* C11: The trie is empty iff root = 0 (removing the last key resets root to
\* 0, root is never 0 while a key is present), and no key is at two leaves.
C11_EmptyIffRootZero ==
  /\ [](phase = "live" =>
          /\ (root = 0) <=> (keys = {})
          /\ (root = 0) <=> (Stored = {})
          /\ 0 \notin TreeWords(mem, root) \/ root = 0
          /\ NoDuplicates(Leaves(mem, root)))
  /\ [][(op'.name = "remove" /\ Stored = {op'.arg}) => root' = 0]_vars

\* The last key has just been removed from a trie that held several.
C11_Witness ==
  /\ op.name = "remove" /\ op.ret = 1 /\ root = 0 /\ allocCalls >= 1

\* TRUE iff under reference w every node's crit_bit is greater than above and
\* than the crit_bit of each node on the way down to it.
RECURSIVE CritBitsIncrease(_, _, _)
CritBitsIncrease(mm, w, above) ==
  IF _critbit_has_tag(w)
  THEN LET node == _critbit_remove_tag(w)
       IN  /\ mm[node].crit_bit > above
           /\ CritBitsIncrease(mm, mm[node].next[0], mm[node].crit_bit)
           /\ CritBitsIncrease(mm, mm[node].next[1], mm[node].crit_bit)
  ELSE TRUE

\* The node the root refers to.
RootNode == mem[_critbit_remove_tag(root)]

\* C12: Along every root-to-leaf path the crit_bit values of the nodes
\* strictly increase, after every critbit_add and critbit_remove.
C12_CritBitsIncrease ==
  phase = "live" => CritBitsIncrease(mem, root, NoBit)

\* critbit_add has just spliced a node in below the root node.
C12_Witness ==
  /\ op.name = "add" /\ op.ret = 1 /\ _critbit_has_tag(root)
  /\ \E j \in 0..1 :
       /\ _critbit_has_tag(RootNode.next[j])
       /\ \E k \in 0..1 : mem[_critbit_remove_tag(RootNode.next[j])].next[k] = op.arg

\* Bit number bit of key k, counted from the most significant bit of the word.
KeyBit(k, bit) == BitAt(k, PtrBits - 1 - bit)

\* TRUE iff under reference w every node has the keys with a 0 at its
\* crit_bit under next[0] and the keys with a 1 there under next[1].
RECURSIVE BranchesByCritBit(_, _)
BranchesByCritBit(mm, w) ==
  IF _critbit_has_tag(w)
  THEN LET node == _critbit_remove_tag(w)
       IN  /\ \A j \in 0..1 :
                \A k \in Range(Leaves(mm, mm[node].next[j])) :
                  KeyBit(k, mm[node].crit_bit) = j
           /\ BranchesByCritBit(mm, mm[node].next[0])
           /\ BranchesByCritBit(mm, mm[node].next[1])
  ELSE TRUE

\* C13: Branch invariant: for every node N every key under N.next[0] has bit
\* N.crit_bit (from the MSB) 0 and every key under N.next[1] has it 1, also
\* right after critbit_add spliced a node in above a whole subtree.
C13_BranchInvariant ==
  phase = "live" => BranchesByCritBit(mem, root)

\* critbit_add has just made a node the root, above a subtree of two keys.
C13_Witness ==
  /\ op.name = "add" /\ op.ret = 1 /\ _critbit_has_tag(root)
  /\ \E j \in 0..1 :
       /\ RootNode.next[j] = op.arg
       /\ _critbit_has_tag(RootNode.next[1 - j])
       /\ Len(Leaves(mem, RootNode.next[1 - j])) = 2

\* The leaf the first descent of critbit_add(cb, v) ends at.
NearestLeaf(v) == Deref(root, mem, _critbit_get_leaf_ptr(root, mem, v))

\* C14: In the second descent of critbit_add for an absent key no node on the
\* path has crit_bit equal to the critical bit b against the nearest leaf:
\* assert(node->crit_bit != crit_bit) never fails, and the splice point holds
\* a leaf or a reference to a node whose crit_bit is greater than b.
C14_NodePtrNeverMeetsCritBit ==
  /\ fault # "assert: node->crit_bit != crit_bit"
  /\ (phase = "live" /\ root # 0) =>
       \A v \in Keys \ Stored :
         LET b == _critbit_get_crit_bit(NearestLeaf(v), v)
             w == Deref(root, mem, _critbit_get_node_ptr(root, mem, v, b))
         IN  b # NoBit =>
               /\ ~NodePtrMeets(root, mem, RootPtr, v, b)
               /\ \A j \in 1..Len(PathNodes(root, mem, RootPtr, v)) :
                    mem[PathNodes(root, mem, RootPtr, v)[j]].crit_bit # b
               /\ _critbit_has_tag(w) => mem[_critbit_remove_tag(w)].crit_bit > b

\* With assert() compiled in, critbit_add has passed a node in its second
\* descent and returned.
C14_Witness ==
  /\ ~ndebug /\ fault = "none" /\ op.name = "add" /\ op.ret = 1
  /\ LET path == PathNodes(root, mem, RootPtr, op.arg)
     IN  /\ Len(path) = 2
         /\ mem[path[1]].crit_bit < mem[path[2]].crit_bit
         /\ \E k \in 0..1 : mem[path[2]].next[k] = op.arg

\* The position, counted from the MSB, of the most significant bit in which
\* the distinct words v1 and v2 differ.
MsbDiff(v1, v2) ==
  CHOOSE bit \in 0..(PtrBits - 1) :
    /\ KeyBit(v1, bit) # KeyBit(v2, bit)
    /\ \A above \in 0..(bit - 1) : KeyBit(v1, above) = KeyBit(v2, above)

\* The crit_bit values stored in the nodes of the structure.
StoredCritBits == {mem[node].crit_bit : node \in ReachNodes(mem, root)}

\* C15: For distinct nonzero even keys _critbit_get_crit_bit returns the
\* position from the MSB of their most significant differing bit, within
\* 0..W-2; every crit_bit stored is below W-1 and assert(bit < W-1) never fails.
C15_CritBitIsMsbDiff ==
  /\ fault \notin {"assert: bit < _CRITBIT_PTR_BITS - 1",
                   "undefined: shift count in _critbit_is_set"}
  /\ phase = "live" =>
       /\ \A b \in StoredCritBits : 0 <= b /\ b < PtrBits - 1
       /\ root # 0 =>
            \A v \in Keys \ Stored :
              LET b == _critbit_get_crit_bit(NearestLeaf(v), v)
              IN  b = MsbDiff(NearestLeaf(v), v) /\ 0 <= b /\ b < PtrBits - 1

\* C15, in the builds whose int is as wide as uintptr_t.
C15_CritBitWideInt == intBits = PtrBits => C15_CritBitIsMsbDiff

\* C15 without the value: every crit_bit stored is within 0..W-2, in any build.
C15_StoredCritBitsInRange ==
  phase = "live" => \A b \in StoredCritBits : 0 <= b /\ b < PtrBits - 1

\* TRUE iff every node under reference w, reached through depth nodes, lies
\* no deeper than its crit_bit allows and no deeper than PtrBits - 1.
RECURSIVE DepthWithin(_, _, _)
DepthWithin(mm, w, depth) ==
  IF _critbit_has_tag(w)
  THEN LET node == _critbit_remove_tag(w)
       IN  /\ depth + 1 <= mm[node].crit_bit + 1
           /\ depth + 1 <= PtrBits - 1
           /\ DepthWithin(mm, mm[node].next[0], depth + 1)
           /\ DepthWithin(mm, mm[node].next[1], depth + 1)
  ELSE TRUE

\* The number of nodes on the longest path under reference w.
RECURSIVE Depth(_, _)
Depth(mm, w) ==
  IF _critbit_has_tag(w)
  THEN LET node == _critbit_remove_tag(w)
           l == Depth(mm, mm[node].next[0])
           r == Depth(mm, mm[node].next[1])
       IN  1 + (IF l > r THEN l ELSE r)
  ELSE 0

\* C16: Every root-to-leaf path has at most W - 1 nodes (a node is never
\* deeper than its crit_bit allows), so every descent of contains, add and
\* remove and the recursion of foreach and delete ends at a leaf after at
\* most W - 1 steps.
C16_BoundedDescent ==
  (phase = "live" /\ root # 0) =>
    /\ DepthWithin(mem, root, 0)
    /\ Depth(mem, root) <= PtrBits - 1
    /\ \A v \in Keys :
         /\ Len(PathNodes(root, mem, RootPtr, v)) <= PtrBits - 1
         /\ Deref(root, mem, _critbit_get_leaf_ptr(root, mem, v)) \in Keys

\* A path of W - 1 nodes exists.
C16_Witness ==
  /\ phase = "live" /\ Depth(mem, root) = PtrBits - 1
  /\ \E v \in Stored : Len(PathNodes(root, mem, RootPtr, v)) = PtrBits - 1

\* The positions of sequence evs that hold event e.
Positions(evs, e) == {j \in 1..Len(evs) : evs[j] = e}

\* TRUE iff in evs every node under reference w is passed to free_node once,
\* after the free_node calls for all the nodes of both its subtrees and after
\* the two reads of its children.
PostOrder(evs, mm, w) ==
  \A node \in ReachNodes(mm, w) :
    /\ Cardinality(Positions(evs, Ev("free", node))) = 1
    /\ Cardinality(Positions(evs, Ev("read", node))) = 2
    /\ \A f \in Positions(evs, Ev("free", node)) :
         /\ \A r \in Positions(evs, Ev("read", node)) : r < f
         /\ \A below \in ReachNodes(mm, _critbit_add_tag(node)) \ {node} :
              \A g \in Positions(evs, Ev("free", below)) : g < f

\* C17: critbit_delete calls free_node on a node only after the calls for
\* all the nodes of both its subtrees and after reading its children; on an
\* empty trie and on a single leaf it makes no free_node call.
C17_TeardownPostOrder ==
  [][op'.name = "delete" =>
       /\ Freed(events') = ReachNodes(mem, root)
       /\ (root # 0 => PostOrder(events', mem, root))
       /\ (root = 0 \/ ~_critbit_has_tag(root)) =>
            (events' = <<>> /\ freeCalls' = freeCalls)]_vars

\* critbit_delete has freed three nodes, the root node last.
C17_Witness ==
  /\ phase = "deleted" /\ Cardinality(Freed(events)) = 3
  /\ events[1] = Ev("read", _critbit_remove_tag(root))
  /\ events[Len(events)] = Ev("free", _critbit_remove_tag(root))

\* The structure under reference w without its node addresses: the leaves,
\* the crit_bit of every node, and which child is which.
RECURSIVE Shape(_, _)
Shape(mm, w) ==
  IF _critbit_has_tag(w)
  THEN LET node == _critbit_remove_tag(w)
       IN  [key |-> 0, crit_bit |-> mm[node].crit_bit,
            kids |-> <<Shape(mm, mm[node].next[0]), Shape(mm, mm[node].next[1])>>]
  ELSE [key |-> w, crit_bit |-> NoBit, kids |-> <<>>]

\* The positions at which _critbit_is_set tells two keys of ks apart.
SplitBits(ks) ==
  {bit \in 0..(PtrBits - 2) :
     \E k1, k2 \in ks : _critbit_is_set(k1, bit) # _critbit_is_set(k2, bit)}

\* The one shape the key set ks determines: a leaf for a single key, else a
\* node at the first position that splits ks, above the shapes of both parts.
RECURSIVE ShapeOf(_)
ShapeOf(ks) ==
  IF ks = {} THEN [key |-> 0, crit_bit |-> NoBit, kids |-> <<>>]
  ELSE IF Cardinality(ks) = 1 \/ SplitBits(ks) = {}
  THEN [key |-> CHOOSE k \in ks : TRUE, crit_bit |-> NoBit, kids |-> <<>>]
  ELSE LET bit == CHOOSE b \in SplitBits(ks) : \A c \in SplitBits(ks) : b <= c
       IN  [key |-> 0, crit_bit |-> bit,
            kids |-> <<ShapeOf({k \in ks : ~_critbit_is_set(k, bit)}),
                       ShapeOf({k \in ks : _critbit_is_set(k, bit)})>>]

\* C18: The structure is a function of the stored key set alone: whatever
\* sequence of adds and removes led to a key set, the shape, the crit_bit of
\* every node and the leaves are the same; critbit_add of an absent key
\* followed by critbit_remove of it restores the structure.
C18_CanonicalShape ==
  /\ [](phase = "live" => Shape(mem, root) = ShapeOf(Stored))
  /\ [][(op'.name = "add" /\ op'.ret = 1) =>
          LET r == critbit_remove(root', mem', op'.arg)
          IN  r.ret = 1 /\ Shape(r.mem, r.root) = Shape(mem, root)]_vars

\* critbit_remove has just collapsed a four-key trie into a chain of two nodes.
C18_Witness ==
  /\ op.name = "remove" /\ op.ret = 1 /\ allocCalls = 3
  /\ Cardinality(Stored) = 3 /\ Depth(mem, root) = 2

----------------------------------------------------------------------------
\* The arena of perftests.c, specification SpecSort.

\* The addresses of the n - 1 node slots create_node_storage(n) allocates.
ArenaAddrs == {2 * (j + 1) : j \in 0..(n - 2)}

\* C19: In the arena-backed critbit_sort on n >= 1 keys next_index never
\* exceeds n - 1 and alloc_critbit_node never returns storage beyond the
\* n - 1 slots of the arena, free_node being a no-op.
C19_ArenaBound ==
  (impl = "perftests.c" /\ n >= 1) =>
    /\ nextIndex <= n - 1
    /\ nextIndex = allocCalls
    /\ live \subseteq ArenaAddrs
    /\ ReachNodes(mem, root) \subseteq ArenaAddrs
    /\ fault # "undefined: node beyond the arena"

\* The arena is used up: n distinct keys have taken all the n - 1 slots.
C19_Witness ==
  /\ impl = "perftests.c" /\ n = MaxLen /\ nextIndex = n - 1
  /\ fault = "none" /\ live = ArenaAddrs /\ spc = "delete"

\* C20: For every buffer length n >= 1 create_node_storage(n) evaluates
\* node_size <= SIZE_MAX / (n - 1) and node_size * (n - 1) without arithmetic
\* fault (no division by zero, no wrap-around) and yields n - 1 node slots.
C20_ArenaSizing ==
  (impl = "perftests.c" /\ n >= 1) =>
    /\ fault # "undefined: division by zero in create_node_storage"
    /\ ArenaSlots = n - 1
    /\ NodeSize * ArenaSlots <= SizeMax

\* C20 for n >= 2, where n - 1 is not 0.
C20_ArenaSizingFromTwo ==
  (impl = "perftests.c" /\ n >= 2) =>
    /\ fault \notin {"undefined: division by zero in create_node_storage",
                     "assert: node_size <= SIZE_MAX / (n - 1)"}
    /\ ArenaSlots = n - 1
    /\ NodeSize * ArenaSlots <= SizeMax

====
